---- MODULE Spec2Model ----
(***************************************************************************)
(* A model of the reward bot of src/main.py: the SQLite ledger (users,     *)
(* transactions, referrals, spins, quiz history, missions), the in-memory  *)
(* handler state (user_data, conversation states, the rate limiter's call  *)
(* lists) and one action per handler.                                      *)
(*                                                                         *)
(* Amounts are in thousandths of a ruble (0.2 ruble = 200), so that two    *)
(* decimals and the digit behind them are whole numbers.  Time is in       *)
(* seconds since an epoch; the host's local date and the UTC date are two  *)
(* functions of it; a row's ts column (DEFAULT CURRENT_TIMESTAMP) is the   *)
(* clock at the insert, and DATE(ts) its UTC date.                         *)
(*                                                                         *)
(* The application is built with ApplicationBuilder() and no concurrent    *)
(* updates: one handler coroutine runs at a time and all database work of  *)
(* a handler lies between two awaits, so a handler is one step.  What can  *)
(* cut a handler short is an exception: an outbound send that raises, or   *)
(* (in the specifications that admit storage faults) an SQLite statement   *)
(* that raises.  The code never rolls back: what a failed handler had      *)
(* executed stays in the connection's open transaction.                    *)
(*                                                                         *)
(* The actions are the handlers.  A handler of a conversation is enabled   *)
(* by the state of that conversation, as ConversationHandler enables it;   *)
(* the order in which register_handlers adds the handlers to their group   *)
(* (the text handler of the order flow before the conversations) is not    *)
(* part of these specifications: an update is taken to reach the handler   *)
(* that is written for it.                                                 *)
(***************************************************************************)
EXTENDS Integers, Sequences, FiniteSets, TLC

VARIABLES
    db,         \* the tables as the shared connection sees them
    disk,       \* the tables as of the last commit
    user_data,  \* context.user_data, per user
    conv,       \* ConversationHandler states of send_conv, per (chat, user)
    quizconv,   \* ConversationHandler states of quiz_conv, per (chat, user)
    calls,      \* rate_limited's closure dict: uid -> timestamps
    now,        \* the clock, seconds
    tz,         \* the host's offset from UTC, seconds
    last,       \* the handler invocation that made the last step, and its outcome
    commits,    \* per (chat, user): transfers committed since send_start
    keyboards,  \* per (chat, user): the question messages sent, with buttons or not
    admitted,   \* per user: the recent times at which daily_bonus_cmd was entered
    faults      \* the storage faults so far

vars == <<db, disk, user_data, conv, quizconv, calls, now, tz, last, commits,
          keyboards, admitted, faults>>

----------------------------------------------------------------------------
(* Bounds of the model *)

\* the ledger holds at most this many events: in the specification of the
\* whole bot, of the transfers, of the transfers under storage faults, of the
\* bonus, and of the spins
MaxEvents == 3
MaxTransferEvents == 5
MaxFaultEvents == 3
MaxBonusEvents == 3
MaxSpinEvents == 2
MaxMissionEvents == 4
MaxReferralEvents == 3
MaxQuizAttempts == 2
MaxServed == 2
MaxOrders == 1
\* in the specification of the whole bot an account claims the bonus at most
\* this many times
MaxCalls == 2
\* and at most this many quiz answers are recorded
MaxAttempts == 1
\* the clock runs for this many half days, and within a half day for this
\* many short steps of TickLen seconds
MaxHalfDays == 6
MaxTicks == 1
MaxLimiterTicks == 3
TickLen == 30
\* a storage fault hits one of the first MaxFaultAt statements of a handler,
\* and there are at most MaxFaults of them
MaxFaultAt == 12
MaxFaults == 1

(* Program constants, in thousandths of a ruble *)
DAILY_MAX_BONUS_PER_USER == 20000
MAX_SEND_PER_DAY == 500000
REFERRAL_BONUS == 4000
\* rate_limited(max_per_minute=6) on daily_bonus_cmd, and its window in seconds
MaxPerMinute == 6
Window == 60

HalfDay == 12 * 3600
Day == 2 * HalfDay
\* the process starts one short step before midnight UTC
StartTime == 2 * Day - TickLen

\* users who talk to the bot, and the ids an account may have
Actors == {1, 2}
AccountIds == {1, 2, 3}
Chats == {"private", "group"}
ConvKeys == Chats \X Actors

\* the host's time zone: west of, at, and east of UTC
TzOffsets == {0 - HalfDay, 0, HalfDay}

\* no statement of the handler raises / the statement after the first f raises
NoFaults == {0 - 1}
DbFaults == 0 .. MaxFaultAt

----------------------------------------------------------------------------
(* Dates *)

\* DATE(ts) of SQLite, and the date of the host's clock at time t
utc_date(t) == t \div Day
local_date(t) == (t + tz) \div Day
\* datetime.date.today()
today == local_date(now)
yesterday == today - 1

----------------------------------------------------------------------------
(* The connection: statements, commit, and the fault that cuts a handler   *)

\* a variant of the row that starts with a balance
NewRowCredited(ref) ==
    [balance |-> 1000, last_bonus |-> 0, streak |-> 0, daily_sent |-> 0,
     referred_by |-> ref]

NewRow(ref) ==
    [balance |-> 0, last_bonus |-> 0, streak |-> 0, daily_sent |-> 0,
     referred_by |-> ref]

\* create_sample_missions: id, reward, and the thresholds of condition_json
\* by key, 0 for a key the condition does not name; quizzes stands for a key
\* other than referrals and spins
Missions ==
    << [id |-> 1, reward |-> 4000, referrals |-> 1, spins |-> 0, quizzes |-> 0],
       [id |-> 2, reward |-> 500, referrals |-> 0, spins |-> 1, quizzes |-> 0] >>

EmptyDb ==
    [users |-> <<>>, transactions |-> <<>>, referrals |-> <<>>,
     spins |-> <<>>, user_quiz_history |-> <<>>, user_missions |-> {},
     missions |-> Missions, orders |-> <<>>]

\* a handler starts on the connection as the previous one left it
Begin(f) ==
    [db |-> db, disk |-> disk, fuel |-> f, ok |-> TRUE, faulted |-> FALSE]

\* the statement that is due raises
Raise(s) == [s EXCEPT !.ok = FALSE, !.faulted = TRUE]

\* cur.execute of a writing statement: raises when the fault is due
Exec(s, newdb) ==
    IF ~s.ok THEN s
    ELSE IF s.fuel = 0 THEN Raise(s)
    ELSE [s EXCEPT !.db = newdb, !.fuel = @ - 1]

db_commit(s) ==
    IF ~s.ok THEN s
    ELSE IF s.fuel = 0 THEN Raise(s)
    ELSE [s EXCEPT !.disk = s.db, !.fuel = @ - 1]

HasUser(d, id) == id \in DOMAIN d.users

InsertUser(d, id, ref) ==
    IF HasUser(d, id) THEN d
    ELSE [d EXCEPT !.users = @ @@ (id :> NewRow(ref))]

ensure_user(s, id, user_obj, ref) ==
    IF ~HasUser(s.db, id)
    THEN db_commit(Exec(s, InsertUser(s.db, id, ref)))
    ELSE IF user_obj
         THEN db_commit(Exec(s, s.db))  \* UPDATE users SET username=..., then commit
         ELSE s

get_balance(d, id) == IF HasUser(d, id) THEN d.users[id].balance ELSE 0

\* a variant of the UPDATE that leaves the balance as it was
AddBalanceNot(d, id, amount) == d

AddBalance(d, id, amount) ==
    IF HasUser(d, id)
    THEN [d EXCEPT !.users[id].balance = @ + amount]
    ELSE d

InsertTransaction(d, id, ttype, amount) ==
    [d EXCEPT !.transactions =
        Append(@, [user_id |-> id, type |-> ttype, amount |-> amount,
                   ts |-> now])]

add_transaction(s, id, ttype, amount) ==
    LET s1 == Exec(s, InsertUser(s.db, id, 0))
        s2 == Exec(s1, AddBalance(s1.db, id, amount))
        s3 == Exec(s2, InsertTransaction(s2.db, id, ttype, amount))
    IN  db_commit(s3)

safe_round(amount) == ((amount + 5) \div 10) * 10

----------------------------------------------------------------------------
(* Reading the ledger *)

RECURSIVE SumAmounts(_, _)
SumAmounts(txs, id) ==
    IF txs = <<>> THEN 0
    ELSE (IF Head(txs).user_id = id THEN Head(txs).amount ELSE 0)
         + SumAmounts(Tail(txs), id)

EventsOf(d, id, ttype) ==
    {i \in 1 .. Len(d.transactions) :
        d.transactions[i].user_id = id /\ d.transactions[i].type = ttype}



\* the ledger has room for n more events, of max
Room(n, max) == Len(db.transactions) + n <= max

\* a handler that ran to s: the faults counted
Count(s) == faults' = faults + (IF s.faulted THEN 1 ELSE 0)

\* a handler may meet fault f
MayFault(f) == f \in NoFaults \/ faults < MaxFaults

\* what the ledger shows of a handler that ran to s
Result(s, done) == IF s.ok THEN done ELSE "db_fault"

\* replied: the handler's reply to the user went out
Did(op, uid, outcome, arg, replied) ==
    [op |-> op, uid |-> uid, outcome |-> outcome, arg |-> arg,
     replied |-> replied]

----------------------------------------------------------------------------
(* Initial state: the tables as created at import, a fresh process *)

NoData ==
    [send_recipient |-> 0, send_amount |-> 0, current_quiz |-> 0,
     awaiting_order |-> FALSE]

\* the process starts on a database whose missions table holds tbl
InitWith(tbl) ==
    /\ db = [EmptyDb EXCEPT !.missions = tbl]
    /\ disk = [EmptyDb EXCEPT !.missions = tbl]
    /\ user_data = [u \in Actors |-> NoData]
    /\ conv = [k \in ConvKeys |-> "END"]
    /\ quizconv = [k \in ConvKeys |-> "END"]
    /\ calls = [u \in Actors |-> <<>>]
    /\ now = StartTime
    /\ tz \in TzOffsets
    /\ last = Did("init", 0, "init", 0, TRUE)
    /\ commits = [k \in ConvKeys |-> 0]
    /\ keyboards = [k \in ConvKeys |-> <<>>]
    /\ admitted = [u \in Actors |-> <<>>]
    /\ faults = 0

Init == InitWith(Missions)

----------------------------------------------------------------------------
(* The clock *)

Advance ==
    /\ now + HalfDay <= StartTime + MaxHalfDays * HalfDay
    /\ now' = now + HalfDay
    /\ last' = Did("clock", 0, "tick", 0, TRUE)
    /\ UNCHANGED <<db, disk, user_data, conv, quizconv, calls, tz, commits, keyboards, admitted, faults>>

\* a short step, within the window of the rate limiter
Tick ==
    /\ ((now - StartTime) % HalfDay) \div TickLen < MaxTicks
    /\ now' = now + TickLen
    /\ last' = Did("clock", 0, "tick", 0, TRUE)
    /\ UNCHANGED <<db, disk, user_data, conv, quizconv, calls, tz, commits, keyboards, admitted, faults>>

----------------------------------------------------------------------------
(* /addbal <user_id> <amount> *)

admin_add_balance_cmd(caller, uid, amt, f) ==
    /\ LET s1 == ensure_user(Begin(f), uid, FALSE, 0)
           s2 == add_transaction(s1, uid, "admin_adjust", amt)
       IN  /\ db' = s2.db
           /\ disk' = s2.disk
           /\ Count(s2)
           /\ last' = Did("addbal", caller, Result(s2, "adjusted"), uid, TRUE)
    /\ UNCHANGED <<user_data, conv, quizconv, calls, now, tz, commits, keyboards, admitted>>

----------------------------------------------------------------------------
(* Daily bonus *)

\* how far back the record of the entered invocations reaches
Horizon == 2 * Window

\* a variant of the pruning that forgets every earlier call
SelectSeq2None(seq, t) == <<>>

SelectSeq2(seq, t) == SelectSeq(seq, LAMBDA x : t - x < Window)

\* a variant of the test that never refuses
can_receive_bonus_always(d, uid) == TRUE

can_receive_bonus_today(d, uid) ==
    IF ~HasUser(d, uid) \/ d.users[uid].last_bonus = 0
    THEN TRUE
    ELSE d.users[uid].last_bonus # today

\* a variant of the streak that grows after a missed day too
NewStreakNoReset(d, uid) ==
    IF HasUser(d, uid) /\ d.users[uid].last_bonus # 0
    THEN d.users[uid].streak + 1
    ELSE 1

\* the streak update_last_bonus_and_streak computes and returns
NewStreak(d, uid) ==
    IF HasUser(d, uid) /\ d.users[uid].last_bonus = yesterday
    THEN d.users[uid].streak + 1
    ELSE 1

SetBonus(d, uid, day, streak) ==
    IF HasUser(d, uid)
    THEN [d EXCEPT !.users[uid].last_bonus = day, !.users[uid].streak = streak]
    ELSE d

update_last_bonus_and_streak(s, uid) ==
    db_commit(Exec(s, SetBonus(s.db, uid, today, NewStreak(s.db, uid))))

BonusTotal(base, streak) ==
    LET total == safe_round(base + streak * 200)
    IN  IF total > DAILY_MAX_BONUS_PER_USER
        THEN DAILY_MAX_BONUS_PER_USER
        ELSE total

\* the decorated handler: rate_limited(max_per_minute=6), then daily_bonus_cmd
daily_bonus_cmd(uid, base, f) ==
    LET user_calls == SelectSeq2(calls[uid], now)
    IN  IF Len(user_calls) >= MaxPerMinute
        THEN /\ last' = Did("bonus", uid, "too_fast", 0, TRUE)
             /\ UNCHANGED <<db, disk, user_data, conv, quizconv, calls, now,
                            tz, commits, keyboards, admitted, faults>>
        ELSE LET s1 == ensure_user(Begin(f), uid, TRUE, 0)
                 can == can_receive_bonus_today(s1.db, uid)
                 streak == NewStreak(s1.db, uid)
                 total == BonusTotal(base, streak)
                 s2 == update_last_bonus_and_streak(s1, uid)
                 s3 == add_transaction(s2, uid, "bonus", total)
             IN  /\ calls' = [calls EXCEPT ![uid] = Append(user_calls, now)]
                 /\ admitted' = [admitted EXCEPT ![uid] =
                        Append(SelectSeq(@, LAMBDA x : now - x < Horizon), now)]
                 /\ IF s1.ok /\ ~can
                    THEN /\ db' = s1.db
                         /\ disk' = s1.disk
                         /\ Count(s1)
                         /\ last' = Did("bonus", uid, "already", 0, TRUE)
                    ELSE /\ db' = s3.db
                         /\ disk' = s3.disk
                         /\ Count(s3)
                         /\ last' = Did("bonus", uid, Result(s3, "claimed"),
                                        total, TRUE)
                 /\ UNCHANGED <<user_data, conv, quizconv, now, tz, commits,
                                keyboards>>

----------------------------------------------------------------------------
(* Send money: the conversation send_conv.  A handler that raises leaves   *)
(* the conversation in the state it was in.                                *)

\* a message text: digits (isdigit) with their value, or something else
RecipientTexts ==
    {[isdigit |-> FALSE, n |-> 0]} \cup {[isdigit |-> TRUE, n |-> i] : i \in AccountIds}

send_start(chat, uid, f, sendOk) ==
    /\ conv[<<chat, uid>>] = "END"
    /\ LET s1 == ensure_user(Begin(f), uid, TRUE, 0)
           entered == s1.ok /\ sendOk
       IN  /\ db' = s1.db
           /\ disk' = s1.disk
           /\ Count(s1)
           /\ conv' = [conv EXCEPT ![<<chat, uid>>] =
                          IF entered THEN "SEND_RECIPIENT" ELSE @]
           /\ commits' = [commits EXCEPT ![<<chat, uid>>] =
                          IF entered THEN 0 ELSE @]
           /\ last' = Did("send_start", uid, Result(s1, "asked_recipient"), 0,
                          sendOk)
    /\ UNCHANGED <<user_data, quizconv, calls, now, tz, keyboards, admitted>>

send_recipient(chat, uid, text, sendOk) ==
    /\ conv[<<chat, uid>>] = "SEND_RECIPIENT"
    /\ IF ~text.isdigit
       THEN /\ last' = Did("send_recipient", uid, "reprompt", 0, sendOk)
            /\ UNCHANGED <<user_data, conv>>
       ELSE /\ user_data' = [user_data EXCEPT ![uid].send_recipient = text.n]
            /\ conv' = [conv EXCEPT ![<<chat, uid>>] =
                           IF sendOk THEN "SEND_AMOUNT" ELSE @]
            /\ last' = Did("send_recipient", uid,
                           "asked_amount", text.n, sendOk)
    /\ UNCHANGED <<db, disk, quizconv, calls, now, tz, commits, keyboards, admitted, faults>>

\* the two digits send_amount keeps of the fractional part, as thousandths
FracMills(frac) ==
    (IF Len(frac) >= 1 THEN frac[1] * 100 ELSE 0)
    + (IF Len(frac) >= 2 THEN frac[2] * 10 ELSE 0)

\* the text after strip and replace(",", "."): invalid, or a sign, an integer
\* part and the digits after the point (<<>>: no point)
ParseAmount(text) ==
    LET abs == text.int * 1000 + FracMills(text.frac)
    IN  IF text.neg THEN 0 - abs ELSE abs

send_amount(chat, uid, text, sendOk) ==
    /\ conv[<<chat, uid>>] = "SEND_AMOUNT"
    /\ LET amount == safe_round(ParseAmount(text))
           bal == get_balance(db, uid)
           daily_sent == IF HasUser(db, uid) THEN db.users[uid].daily_sent ELSE 0
           outcome ==
               IF ~text.valid THEN "invalid"
               ELSE IF amount <= 0 THEN "not_positive"
               ELSE IF amount > bal THEN "no_funds"
               ELSE IF daily_sent + amount > MAX_SEND_PER_DAY THEN "over_cap"
               ELSE "asked_confirm"
       IN  /\ user_data' =
                 IF outcome = "asked_confirm"
                 THEN [user_data EXCEPT ![uid].send_amount = amount]
                 ELSE user_data
           /\ conv' = [conv EXCEPT ![<<chat, uid>>] =
                 IF ~sendOk THEN @
                 ELSE IF outcome \in {"no_funds", "over_cap"} THEN "END"
                 ELSE IF outcome = "asked_confirm" THEN "SEND_CONFIRM"
                 ELSE @]
           /\ last' = Did("send_amount", uid, outcome, amount, sendOk)
    /\ UNCHANGED <<db, disk, quizconv, calls, now, tz, commits, keyboards, admitted, faults>>

AddDailySent(d, uid, amt) ==
    IF HasUser(d, uid)
    THEN [d EXCEPT !.users[uid].daily_sent = @ + amt]
    ELSE d

\* the database work of a confirm: ensure_user(rec), the balance re-check,
\* the two ledger events and the daily_sent update
Transfer(s, uid, rec, amt) ==
    LET s1 == add_transaction(s, uid, "transfer_out", 0 - amt)
        s2 == add_transaction(s1, rec, "transfer_in", amt)
    IN  db_commit(Exec(s2, AddDailySent(s2.db, uid, amt)))

\* a variant of the re-check that lets every amount pass
EnoughAlways(d, uid, amt) == TRUE

\* the re-check of the balance: if amt > bal the confirm is aborted
Enough(d, uid, amt) == ~(amt > get_balance(d, uid))

\* net: which of the handler's awaits raises: "answer" (q.answer), "edit"
\* (q.edit_message_text), or "ok"
send_confirm(chat, uid, data, f, net) ==
    /\ conv[<<chat, uid>>] = "SEND_CONFIRM"
    /\ LET rec == user_data[uid].send_recipient
           amt == user_data[uid].send_amount
           s1 == ensure_user(Begin(f), rec, FALSE, 0)
           enough == Enough(s1.db, uid, amt)
           s2 == Transfer(s1, uid, rec, amt)
           outcome ==
               IF net = "answer" THEN "send_failed"
               ELSE IF data = "cancel_send" THEN "cancelled"
               ELSE IF rec = 0 \/ amt = 0 THEN "no_data"
               ELSE IF ~s1.ok THEN "db_fault"
               ELSE IF ~enough THEN "no_funds"
               ELSE Result(s2, "committed")
           s == IF outcome \in {"send_failed", "cancelled", "no_data"}
                THEN Begin(f)
                ELSE IF outcome = "no_funds" \/ ~s1.ok THEN s1
                ELSE s2
       IN  /\ db' = s.db
           /\ disk' = s.disk
           /\ Count(s)
           /\ conv' = [conv EXCEPT ![<<chat, uid>>] =
                 IF outcome \in {"send_failed", "db_fault"} \/ net = "edit"
                 THEN @ ELSE "END"]
           /\ commits' = [commits EXCEPT ![<<chat, uid>>] =
                 IF outcome = "committed" THEN @ + 1 ELSE @]
           /\ last' = Did("send_confirm", uid, outcome, amt, net = "ok")
    /\ UNCHANGED <<user_data, quizconv, calls, now, tz, keyboards, admitted>>

----------------------------------------------------------------------------
(* Spin wheel *)

spin_rewards_table ==
    << <<0, 10>>, <<200, 25>>, <<500, 20>>, <<1000, 15>>, <<2000, 10>>,
       <<5000, 5>>, <<10000, 1>> >>

RECURSIVE SumWeights(_)
SumWeights(table) ==
    IF table = <<>> THEN 0 ELSE Head(table)[2] + SumWeights(Tail(table))

total_weight == SumWeights(spin_rewards_table)

\* a variant of the comparison that excludes the upper end of a bucket
InBucketStrict(r, upto) == r < upto

\* the comparison of the draw with the weight accumulated so far
InBucket(r, upto) == r <= upto

RECURSIVE Walk(_, _, _)
Walk(table, r, upto) ==
    IF table = <<>> THEN 0
    ELSE IF InBucket(r, upto + Head(table)[2]) THEN Head(table)[1]
    ELSE Walk(Tail(table), r, upto + Head(table)[2])

\* r is the value of random.randint(1, total_weight)
spin_once(r) == Walk(spin_rewards_table, r, 0)

\* SELECT COUNT(*) FROM spins WHERE user_id=? AND DATE(ts)=?
SpinCount(d, uid, day) ==
    Cardinality({i \in 1 .. Len(d.spins) :
                    d.spins[i].user_id = uid /\ utc_date(d.spins[i].ts) = day})

InsertSpin(d, uid, reward) ==
    [d EXCEPT !.spins =
        Append(@, [user_id |-> uid, reward |-> reward, ts |-> now])]

spin_start(uid, r, f) ==
    LET s1 == ensure_user(Begin(f), uid, TRUE, 0)
        cnt == SpinCount(s1.db, uid, today)
        reward == spin_once(r)
        s2 == add_transaction(s1, uid, "spin", reward)
        s3 == db_commit(Exec(s2, InsertSpin(s2.db, uid, reward)))
    IN  /\ IF s1.ok /\ cnt >= 1
           THEN /\ db' = s1.db
                /\ disk' = s1.disk
                /\ Count(s1)
                /\ last' = Did("spin", uid, "already", r, TRUE)
           ELSE /\ db' = s3.db
                /\ disk' = s3.disk
                /\ Count(s3)
                /\ last' = Did("spin", uid, Result(s3, "spun"), r, TRUE)
        /\ UNCHANGED <<user_data, conv, quizconv, calls, now, tz, commits, keyboards, admitted>>

----------------------------------------------------------------------------
(* /start and the referral link *)

\* a variant of the SELECT that never finds a row
HasReferralNever(d, uid) == FALSE

HasReferral(d, uid) ==
    \E i \in 1 .. Len(d.referrals) : d.referrals[i].referred = uid

InsertReferral(d, ref, uid) ==
    [d EXCEPT !.referrals = Append(@, [referrer |-> ref, referred |-> uid])]

\* ref_id: the id of the ?start=ref<id> argument, 0 without one
start_handler(uid, ref_id, f) ==
    LET s1 == ensure_user(Begin(f), uid, TRUE, ref_id)
        refer == ref_id # 0 /\ ref_id # uid /\ ~HasReferral(s1.db, uid)
        s2 == Exec(s1, InsertReferral(s1.db, ref_id, uid))
        s3 == db_commit(add_transaction(s2, ref_id, "referral", REFERRAL_BONUS))
    IN  /\ IF s1.ok /\ ~refer
           THEN /\ db' = s1.db
                /\ disk' = s1.disk
                /\ Count(s1)
                /\ last' = Did("start", uid, "menu", ref_id, TRUE)
           ELSE /\ db' = s3.db
                /\ disk' = s3.disk
                /\ Count(s3)
                /\ last' = Did("start", uid, Result(s3, "referred"), ref_id, TRUE)
        /\ UNCHANGED <<user_data, conv, quizconv, calls, now, tz, commits, keyboards, admitted>>

----------------------------------------------------------------------------
(* Missions and the daily audit *)

ReferralCount(d, uid) ==
    Cardinality({i \in 1 .. Len(d.referrals) : d.referrals[i].referrer = uid})

TotalSpins(d, uid) ==
    Cardinality({i \in 1 .. Len(d.spins) : d.spins[i].user_id = uid})

\* the thresholds the loop body reads of a mission's condition
ConditionMet(d, uid, m) ==
    /\ m.referrals # 0 => ~(ReferralCount(d, uid) < m.referrals)
    /\ m.spins # 0 => ~(TotalSpins(d, uid) < m.spins)

Completed(d, uid, mid) == <<uid, mid>> \in d.user_missions

\* a variant of the INSERT OR REPLACE INTO user_missions that marks nothing
MarkCompletedNot(d, uid, mid) == d

MarkCompleted(d, uid, mid) ==
    [d EXCEPT !.user_missions = @ \cup {<<uid, mid>>}]

\* one pass of the loop over the missions, from mission i on
RECURSIVE ApplyMissions(_, _, _)
ApplyMissions(s, uid, i) ==
    IF i > Len(s.db.missions) THEN s
    ELSE LET m == s.db.missions[i]
         IN  IF Completed(s.db, uid, m.id) \/ ~ConditionMet(s.db, uid, m)
             THEN ApplyMissions(s, uid, i + 1)
             ELSE ApplyMissions(
                      add_transaction(
                          Exec(s, MarkCompleted(s.db, uid, m.id)),
                          uid, "mission_reward", m.reward),
                      uid, i + 1)

check_and_apply_missions_for_user(s, uid) ==
    db_commit(ApplyMissions(s, uid, 1))

\* the except of daily_audit_job: the error is logged, the loop goes on
Caught(s) == IF s.ok THEN s ELSE [s EXCEPT !.ok = TRUE, !.fuel = 0 - 1]

\* the accounts in the order of SELECT id FROM users
RECURSIVE AuditUsers(_, _)
AuditUsers(s, ids) ==
    IF ids = {} THEN s
    ELSE LET uid == CHOOSE x \in ids : \A y \in ids : x <= y
         IN  AuditUsers(Caught(check_and_apply_missions_for_user(s, uid)),
                        ids \ {uid})

\* a variant of the audit's UPDATE that resets nothing
ResetDailySentNot(d) == d

ResetDailySent(d) ==
    [d EXCEPT !.users = [id \in DOMAIN d.users |->
                            [d.users[id] EXCEPT !.daily_sent = 0]]]

daily_audit_job(f) ==
    /\ LET s1 == db_commit(Exec(Begin(f), ResetDailySent(db)))
           s2 == IF s1.ok THEN AuditUsers(s1, DOMAIN s1.db.users) ELSE s1
       IN  /\ db' = s2.db
           /\ disk' = s2.disk
           /\ Count(s2)
           /\ last' = Did("audit", 0, Result(s2, "audited"), 0, TRUE)
    /\ UNCHANGED <<user_data, conv, quizconv, calls, now, tz, commits, keyboards, admitted>>

----------------------------------------------------------------------------
(* Daily quiz: the conversation quiz_conv *)

\* setup_sample_questions: id, answer_index, reward
Questions ==
    << [id |-> 1, answer_index |-> 0, reward |-> 500],
       [id |-> 2, answer_index |-> 1, reward |-> 500],
       [id |-> 3, answer_index |-> 0, reward |-> 500] >>

QuestionIds == {Questions[i].id : i \in 1 .. Len(Questions)}
Question(qid) == CHOOSE q \in {Questions[i] : i \in 1 .. Len(Questions)} : q.id = qid
\* the indexes of the four option buttons
Selections == 0 .. 3

AttemptedToday(d, uid) ==
    {d.user_quiz_history[i].question_id : i \in
        {j \in 1 .. Len(d.user_quiz_history) :
            /\ d.user_quiz_history[j].user_id = uid
            /\ utc_date(d.user_quiz_history[j].ts) = today}}

\* the questions ORDER BY RANDOM() LIMIT 1 may return
get_random_quiz_question(d, uid) ==
    IF QuestionIds \ AttemptedToday(d, uid) # {}
    THEN QuestionIds \ AttemptedToday(d, uid)
    ELSE QuestionIds

quiz_start(chat, uid, qid, f, sendOk) ==
    /\ quizconv[<<chat, uid>>] = "END"
    /\ LET s1 == ensure_user(Begin(f), uid, TRUE, 0)
       IN  /\ qid \in get_random_quiz_question(s1.db, uid)
           /\ db' = s1.db
           /\ disk' = s1.disk
           /\ Count(s1)
           /\ user_data' = IF s1.ok
                           THEN [user_data EXCEPT ![uid].current_quiz = qid]
                           ELSE user_data
           /\ quizconv' = [quizconv EXCEPT ![<<chat, uid>>] =
                 IF s1.ok /\ sendOk THEN "QUIZ_ANSWER" ELSE @]
           /\ keyboards' = [keyboards EXCEPT ![<<chat, uid>>] =
                 IF s1.ok /\ sendOk
                 THEN Append(@, [qid |-> qid, buttons |-> TRUE]) ELSE @]
           /\ last' = Did("quiz_start", uid, Result(s1, "asked"), qid, sendOk)
    /\ UNCHANGED <<conv, calls, now, tz, commits, admitted>>

InsertAttempt(d, uid, qid, correct) ==
    [d EXCEPT !.user_quiz_history =
        Append(@, [user_id |-> uid, question_id |-> qid, correct |-> correct,
                   ts |-> now])]

\* the callback of button sel of question message msg of the chat: its
\* payload is quiz|qid_str|sel, with qid_str the question of that message
quiz_answer_cb(chat, uid, msg, sel, f, net) ==
    /\ quizconv[<<chat, uid>>] = "QUIZ_ANSWER"
    /\ msg \in 1 .. Len(keyboards[<<chat, uid>>])
    /\ keyboards[<<chat, uid>>][msg].buttons
    /\ LET qid_str == keyboards[<<chat, uid>>][msg].qid
           qid == user_data[uid].current_quiz
           correct == qid # 0 /\ sel = Question(qid).answer_index
           s1 == db_commit(Exec(Begin(f),
                     InsertAttempt(db, uid, qid, IF correct THEN 1 ELSE 0)))
           s2 == IF correct
                 THEN add_transaction(s1, uid, "quiz", Question(qid).reward)
                 ELSE s1
           outcome ==
               IF qid = 0 THEN "no_question"
               ELSE IF net = "answer" THEN "send_failed"
               ELSE IF correct THEN Result(s2, "correct")
               ELSE Result(s2, "wrong")
           done == outcome \in {"correct", "wrong"} /\ net = "ok"
           s == IF outcome \in {"no_question", "send_failed"} THEN Begin(f) ELSE s2
       IN  /\ db' = s.db
           /\ disk' = s.disk
           /\ Count(s)
           /\ user_data' = IF done
                           THEN [user_data EXCEPT ![uid].current_quiz = 0]
                           ELSE user_data
           /\ quizconv' = [quizconv EXCEPT ![<<chat, uid>>] =
                 IF done THEN "END" ELSE @]
           /\ keyboards' = [keyboards EXCEPT ![<<chat, uid>>][msg].buttons =
                 IF done THEN FALSE ELSE @]
           /\ last' = Did("quiz_answer", uid, outcome, qid_str, net = "ok")
    /\ UNCHANGED <<conv, calls, now, tz, commits, admitted>>

----------------------------------------------------------------------------
(* The transfers: one sender in two chats, the operator's adjustments and  *)
(* the audit; sends may fail, the storage does not                         *)

Buttons == {"confirm_send", "cancel_send"}
Nets == {"ok", "answer", "edit"}
Junk == [valid |-> FALSE, neg |-> FALSE, int |-> 0, frac |-> <<>>]
Number(neg, int, frac) == [valid |-> TRUE, neg |-> neg, int |-> int, frac |-> frac]

Senders == {1}
TransferRecipients == {[isdigit |-> FALSE, n |-> 0], [isdigit |-> TRUE, n |-> 3]}
TransferAmounts ==
    {Junk, Number(TRUE, 1, <<>>), Number(FALSE, 500, <<>>), Number(FALSE, 600, <<>>)}
TransferAdjustments == {1000000, 0 - 1000000}

TransferSteps(chats, fs, max) ==
    \/ \E chat \in chats, uid \in Senders, f \in fs, sendOk \in BOOLEAN :
          /\ MayFault(f)
          /\ send_start(chat, uid, f, sendOk)
    \/ \E chat \in chats, uid \in Senders, text \in TransferRecipients,
          sendOk \in BOOLEAN :
          send_recipient(chat, uid, text, sendOk)
    \/ \E chat \in chats, uid \in Senders, text \in TransferAmounts,
          sendOk \in BOOLEAN :
          send_amount(chat, uid, text, sendOk)
    \/ \E chat \in chats, uid \in Senders, data \in Buttons, f \in fs,
          net \in Nets :
          /\ MayFault(f)
          /\ Room(2, max)
          /\ send_confirm(chat, uid, data, f, net)
    \/ \E uid \in Senders, amt \in TransferAdjustments, f \in fs :
          /\ MayFault(f)
          /\ Room(1, max)
          /\ admin_add_balance_cmd(2, uid, amt, f)

NextTransfer ==
    \/ TransferSteps(Chats, NoFaults, MaxTransferEvents)
    \/ \E f \in NoFaults : daily_audit_job(f)

SpecTransfer == Init /\ [][NextTransfer]_vars

\* the same handlers where an SQLite statement may raise
NextTransferFault ==
    TransferSteps({"private"}, DbFaults \cup NoFaults, MaxFaultEvents)

SpecTransferFault == Init /\ [][NextTransferFault]_vars

----------------------------------------------------------------------------
(* Claims about the transfers *)

RECURSIVE SumType(_, _)
SumType(txs, ttype) ==
    IF txs = <<>> THEN 0
    ELSE (IF Head(txs).type = ttype THEN Head(txs).amount ELSE 0)
         + SumType(Tail(txs), ttype)

RECURSIVE SumSent(_, _)
SumSent(d, ids) ==
    IF ids = {} THEN 0
    ELSE LET id == CHOOSE x \in ids : TRUE
         IN  d.users[id].daily_sent + SumSent(d, ids \ {id})

\* all three effects of every transfer, or none (no audit has reset a counter)
Whole(d) ==
    /\ SumType(d.transactions, "transfer_in")
          = 0 - SumType(d.transactions, "transfer_out")
    /\ SumSent(d, DOMAIN d.users) = SumType(d.transactions, "transfer_in")

\* C3: a confirmed transfer is one indivisible unit: neither the state the
\* handlers see nor the persisted state ever holds only some of transfer_out,
\* transfer_in and the daily-sent increment.
C3_TransferIndivisible == Whole(db) /\ Whole(disk)

\* a fault after the first ledger event of a confirm
C3_PartialTransfer ==
    /\ last.op = "send_confirm"
    /\ last.outcome = "db_fault"
    /\ SumType(disk.transactions, "transfer_out") # 0
    /\ SumType(disk.transactions, "transfer_in") = 0

\* C4: a confirm that fails the final balance check leaves the state as it
\* was: no event, no balance or counter change, no account created.
C4_AbortLeavesState ==
    [][(last'.op = "send_confirm" /\ last'.outcome = "no_funds")
          => (db' = db /\ disk' = disk)]_vars

\* C5: one pass through recipient, amount and confirm commits at most one
\* transfer, whatever callbacks arrive and however the sends end.
C5_AtMostOneCommit == \A k \in ConvKeys : commits[k] <= 1

\* C6: the daily-sent counter of an account never exceeds MAX_SEND_PER_DAY.
C6_SentWithinCap ==
    \A id \in DOMAIN db.users : db.users[id].daily_sent <= MAX_SEND_PER_DAY

\* C7: after the audit every daily-sent counter is 0; an amount equal to the
\* cap entered by an account whose counter is 0 and whose balance covers it
\* is accepted for confirmation, and a confirm that is answered, not
\* cancelled and covered by the balance moves the amount.
C7_AuditResets ==
    /\ [](last.op = "audit" /\ last.outcome = "audited"
            => \A id \in DOMAIN db.users : db.users[id].daily_sent = 0)
    /\ [][(/\ last'.op = "send_amount"
           /\ last'.arg = MAX_SEND_PER_DAY
           /\ HasUser(db, last'.uid)
           /\ db.users[last'.uid].daily_sent = 0
           /\ db.users[last'.uid].balance >= MAX_SEND_PER_DAY)
          => last'.outcome = "asked_confirm"]_vars
    /\ [][(/\ last'.op = "send_confirm"
           /\ last'.outcome \notin {"send_failed", "cancelled", "no_data"}
           /\ get_balance(db, last'.uid) >= last'.arg)
          => LET rec == user_data[last'.uid].send_recipient
             IN  /\ last'.outcome = "committed"
                 /\ get_balance(db', last'.uid)
                      = get_balance(db, last'.uid) - last'.arg
                 /\ get_balance(db', rec) = get_balance(db, rec) + last'.arg]_vars

\* the cap sent, the audit, and the cap sent again
C7_SentCapAfterAudit ==
    /\ last.op = "send_confirm"
    /\ last.outcome = "committed"
    /\ last.arg = MAX_SEND_PER_DAY
    /\ SumType(db.transactions, "transfer_out") = 0 - 2 * MAX_SEND_PER_DAY
    /\ db.users[last.uid].daily_sent = MAX_SEND_PER_DAY

----------------------------------------------------------------------------
(* The daily bonus of one account over several days and across midnight,   *)
(* in every time zone                                                      *)

Claimants == {1}

\* random.uniform(0.2, 5.0): the top of the range
BaseDraws == {5000}

NextBonus ==
    \/ Advance
    \/ Tick
    \/ \E uid \in Claimants, base \in BaseDraws, f \in NoFaults :
          /\ Room(1, MaxBonusEvents)
          /\ daily_bonus_cmd(uid, base, f)

SpecBonus == Init /\ [][NextBonus]_vars

\* the bonus events of an account, and the local dates they were claimed on
BonusEvents(id) == EventsOf(db, id, "bonus")
BonusDays(id) == {local_date(db.transactions[i].ts) : i \in BonusEvents(id)}
BonusToday(id) ==
    {i \in BonusEvents(id) : local_date(db.transactions[i].ts) = today}

\* C2 as stated: of the bonus claims of an account on one day exactly one
\* succeeds, and every other one is rejected as already claimed.
C2_OthersAlreadyClaimed ==
    last.op = "bonus" =>
        /\ Cardinality(BonusToday(last.uid)) = 1
        /\ last.outcome \in {"claimed", "already"}

\* C2, amended: of the bonus claims of an account on one day at most one
\* succeeds and the ledger holds at most one bonus event of that day; a claim
\* that passes the rate limiter succeeds if none has succeeded that day and
\* is rejected as already claimed otherwise; a claim past six within 60
\* seconds is rejected as too fast, and changes nothing.
C2_OneBonusPerDay ==
    /\ [](\A id \in Actors :
            Cardinality(BonusEvents(id)) = Cardinality(BonusDays(id)))
    /\ [](last.op = "bonus" =>
            /\ last.outcome \in {"claimed", "already", "too_fast"}
            /\ last.outcome # "too_fast"
                  => Cardinality(BonusToday(last.uid)) = 1)
    /\ [][(last'.op = "bonus" /\ last'.outcome = "claimed")
             => BonusToday(last'.uid) = {}]_vars
    /\ [][(last'.op = "bonus" /\ last'.outcome = "already")
             => (BonusToday(last'.uid) # {} /\ db' = db)]_vars
    /\ [][(last'.op = "bonus" /\ last'.outcome = "too_fast")
             => (db' = db /\ disk' = disk /\ calls' = calls)]_vars

\* a second claim of the day, rejected
C2_SecondClaimRejected ==
    /\ last.op = "bonus"
    /\ last.outcome = "already"
    /\ Cardinality(BonusToday(last.uid)) = 1

\* a claim after midnight, within a minute of six claims before it
TooFastOnNewDay ==
    /\ last.op = "bonus"
    /\ last.outcome = "too_fast"
    /\ BonusToday(last.uid) = {}

\* the days, back from day, on which the account claimed without a gap
RECURSIVE RunLength(_, _)
RunLength(days, day) ==
    IF day \in days THEN 1 + RunLength(days, day - 1) ELSE 0

LastBonusDay(id) == CHOOSE d \in BonusDays(id) : \A e \in BonusDays(id) : e <= d

\* C8: the stored last-claim date is the day of the latest claim, and the
\* stored streak is the previous streak + 1 when the claim before was on the
\* day before, and 1 otherwise: the number of days in a row, up to the
\* latest claim, on which the account claimed.
C8_StreakCountsDaysInARow ==
    /\ [](\A id \in Actors :
            BonusEvents(id) # {} =>
                /\ db.users[id].last_bonus = LastBonusDay(id)
                /\ db.users[id].streak
                     = RunLength(BonusDays(id), LastBonusDay(id)))
    /\ [][(last'.op = "bonus" /\ last'.outcome = "claimed") =>
            /\ db'.users[last'.uid].last_bonus = today
            /\ db'.users[last'.uid].streak =
                  IF /\ BonusEvents(last'.uid) # {}
                     /\ LastBonusDay(last'.uid) = today - 1
                  THEN db.users[last'.uid].streak + 1
                  ELSE 1]_vars

\* claims on two days in a row, a day missed, and a claim: the streak is 1
C8_StreakGrowsAndResets ==
    \E id \in Actors :
        /\ last = Did("bonus", id, "claimed", last.arg, TRUE)
        /\ BonusDays(id) = {today - 3, today - 2, today}
        /\ db.users[id].streak = 1

----------------------------------------------------------------------------
(* The spin wheel: the first and the last draw of every bucket, over       *)
(* several days, in every time zone                                        *)

Spinners == {1}

\* the weight of the buckets before bucket i
RECURSIVE WeightBefore(_)
WeightBefore(i) ==
    IF i = 1 THEN 0 ELSE WeightBefore(i - 1) + spin_rewards_table[i - 1][2]

Draws ==
    UNION {{WeightBefore(i) + 1, WeightBefore(i) + spin_rewards_table[i][2]} :
              i \in 1 .. Len(spin_rewards_table)}

NextSpin ==
    \/ Advance
    \/ \E uid \in Spinners, r \in Draws, f \in NoFaults :
          /\ Room(1, MaxSpinEvents)
          /\ spin_start(uid, r, f)

SpecSpin == Init /\ [][NextSpin]_vars

\* the bucket of a draw
BucketOf(r) ==
    CHOOSE i \in 1 .. Len(spin_rewards_table) :
        WeightBefore(i) < r /\ r <= WeightBefore(i) + spin_rewards_table[i][2]

Spun == last.op = "spin" /\ last.outcome = "spun"
LastReward == db.spins[Len(db.spins)].reward

\* C9 as stated: with the weight table of the code, a draw of 10 pays 0.2.
C9_DrawTenPaysOneFifth == (Spun /\ last.arg = 10) => LastReward = 200

\* C9, amended: a draw pays the reward of the bucket whose range of
\* accumulated weights holds it; a draw of 10 is the last of the first
\* bucket and pays 0, and a draw of 11 is the first that pays 0.2.
C9_DrawPaysItsBucket ==
    Spun =>
        /\ LastReward = spin_rewards_table[BucketOf(last.arg)][1]
        /\ last.arg = 10 => LastReward = 0
        /\ last.arg = 11 => LastReward = 200

C9_DrewTen == Spun /\ last.arg = 10

\* C10: no account has two spins on one calendar day (here: on one day by
\* the host's date and by the UTC date alike).
C10_OneSpinPerDay ==
    \A i, j \in 1 .. Len(db.spins) :
        (i < j /\ db.spins[i].user_id = db.spins[j].user_id) =>
            ~(/\ utc_date(db.spins[i].ts) = utc_date(db.spins[j].ts)
              /\ local_date(db.spins[i].ts) = local_date(db.spins[j].ts))

\* two spins of an account at the same hour
C10_TwoSpinsSameHour ==
    /\ Spun
    /\ Len(db.spins) >= 2
    /\ db.spins[Len(db.spins)].ts = db.spins[Len(db.spins) - 1].ts
    /\ db.spins[Len(db.spins)].user_id = db.spins[Len(db.spins) - 1].user_id

----------------------------------------------------------------------------
(* The whole bot: every handler that touches the ledger, at one hour.      *)
(* Account 1 is credited, claims the bonus and sends money to account 3;   *)
(* account 2 arrives by the referral link of account 1, spins and answers  *)
(* the quiz.  The clock stands still, so one time zone stands for all.     *)

Next ==
    \/ \E amt \in {500000, 0 - 5000}, f \in NoFaults :
          /\ Room(1, MaxEvents)
          /\ admin_add_balance_cmd(2, 1, amt, f)
    \/ \E base \in BaseDraws, f \in NoFaults :
          /\ Room(1, MaxEvents)
          /\ Len(calls[1]) < MaxCalls
          /\ daily_bonus_cmd(1, base, f)
    \/ \E f \in NoFaults, sendOk \in BOOLEAN :
          send_start("private", 1, f, sendOk)
    \/ \E text \in TransferRecipients, sendOk \in {TRUE} :
          send_recipient("private", 1, text, sendOk)
    \/ \E text \in {Junk, Number(FALSE, 500, <<>>)}, sendOk \in {TRUE} :
          send_amount("private", 1, text, sendOk)
    \/ \E data \in Buttons, f \in NoFaults, net \in Nets :
          /\ Room(2, MaxEvents)
          /\ send_confirm("private", 1, data, f, net)
    \/ \E r \in {10, 11}, f \in NoFaults :
          /\ Room(1, MaxEvents)
          /\ spin_start(2, r, f)
    \/ \E ref_id \in {0, 1}, f \in NoFaults :
          /\ Room(1, MaxEvents)
          /\ start_handler(2, ref_id, f)
    \/ \E f \in NoFaults :
          /\ Room(2, MaxEvents)
          /\ daily_audit_job(f)
    \/ \E qid \in {1}, f \in NoFaults, sendOk \in {TRUE} :
          quiz_start("private", 2, qid, f, sendOk)
    \/ \E sel \in {0, 1}, f \in NoFaults, net \in Nets :
          /\ Room(1, MaxEvents)
          /\ Len(db.user_quiz_history) < MaxAttempts
          /\ \E msg \in 1 .. Len(keyboards[<<"private", 2>>]) :
                quiz_answer_cb("private", 2, msg, sel, f, net)

InitUtc == Init /\ tz = 0

Spec == InitUtc /\ [][Next]_vars

\* C1: the stored balance of every account is the sum of the amounts of the
\* ledger events recorded for it.
C1_BalanceIsSumOfEvents ==
    \A id \in AccountIds :
        get_balance(db, id) = SumAmounts(db.transactions, id)

\* a credit and a confirmed transfer: three events on two accounts
C1_CreditedAndTransferred ==
    /\ last.op = "send_confirm"
    /\ last.outcome = "committed"
    /\ get_balance(db, 3) = 500000
    /\ get_balance(db, 1) = 0

----------------------------------------------------------------------------
(* The missions: account 2 arrives by the referral link of account 1,      *)
(* the accounts spin, and the audit evaluates the missions; an SQLite      *)
(* statement of the audit may raise.                                       *)

MissionSteps(fs) ==
    \/ \E uid \in Actors, f \in NoFaults :
          /\ Room(1, MaxMissionEvents)
          /\ start_handler(uid, 1, f)
    \/ \E uid \in Actors, f \in NoFaults :
          /\ Room(1, MaxMissionEvents)
          /\ spin_start(uid, 11, f)
    \/ \E f \in fs :
          /\ MayFault(f)
          /\ Room(1, MaxMissionEvents)
          /\ daily_audit_job(f)

NextMission == MissionSteps(DbFaults \cup NoFaults)

SpecMission == Init /\ [][NextMission]_vars

\* the mission_reward events of an account that carry the reward of a mission
\* (the sample missions have different rewards)
MissionEvents(d, uid, m) ==
    {i \in EventsOf(d, uid, "mission_reward") :
        d.transactions[i].amount = m.reward}

MissionSet == {Missions[i] : i \in 1 .. Len(Missions)}

\* C11: for every account and mission at most one mission_reward event is
\* ever issued, and it is issued only with the mission marked completed; a
\* step taken with the mission already completed leaves its mark and its
\* events as they were.
C11_OneRewardPerMission ==
    /\ [](\A uid \in AccountIds, m \in MissionSet :
            /\ Cardinality(MissionEvents(db, uid, m)) <= 1
            /\ MissionEvents(db, uid, m) # {} => Completed(db, uid, m.id))
    /\ [][\A uid \in AccountIds, m \in MissionSet :
            Completed(db, uid, m.id) =>
                /\ Completed(db', uid, m.id)
                /\ MissionEvents(db', uid, m) = MissionEvents(db, uid, m)]_vars

\* account 1 was rewarded for the referral mission, spun, and was rewarded
\* for the spin mission by a later audit
C11_RewardedByTwoAudits ==
    \E i, j, k \in 1 .. Len(db.transactions) :
        /\ i < j /\ j < k
        /\ i \in MissionEvents(db, 1, Missions[1])
        /\ db.transactions[j].type = "spin"
        /\ db.transactions[j].user_id = 1
        /\ k \in MissionEvents(db, 1, Missions[2])
        /\ last.op = "audit"

----------------------------------------------------------------------------
(* The quiz: one account asks for questions in two chats and presses the   *)
(* buttons of the question messages; replies may fail, the clock moves     *)

Players == {1}

\* the question messages sent to an account, over its chats
RECURSIVE Served(_, _)
Served(uid, chats) ==
    IF chats = {} THEN 0
    ELSE LET chat == CHOOSE c \in chats : TRUE
         IN  Len(keyboards[<<chat, uid>>]) + Served(uid, chats \ {chat})

QuizSteps(chats, nets) ==
    \/ \E chat \in chats, uid \in Players, qid \in QuestionIds, f \in NoFaults,
          sendOk \in BOOLEAN :
          /\ Served(uid, Chats) < MaxServed
          /\ quiz_start(chat, uid, qid, f, sendOk)
    \/ \E chat \in chats, uid \in Players, sel \in {0, 1}, f \in NoFaults,
          net \in nets :
          /\ Len(db.user_quiz_history) < MaxQuizAttempts
          /\ \E msg \in 1 .. Len(keyboards[<<chat, uid>>]) :
                quiz_answer_cb(chat, uid, msg, sel, f, net)

NextQuiz == QuizSteps(Chats, Nets)

SpecQuiz == Init /\ [][NextQuiz]_vars

AttemptsOf(d, uid) ==
    {i \in 1 .. Len(d.user_quiz_history) : d.user_quiz_history[i].user_id = uid}

\* C12: an account has at most as many recorded attempts and quiz rewards
\* as question messages were served to it, and an answer callback that
\* finds no stored question, or whose payload names another question than
\* the stored one, records no attempt and appends no ledger event.
C12_OneAttemptPerServedQuestion ==
    /\ [](\A uid \in Players :
            /\ Cardinality(AttemptsOf(db, uid)) <= Served(uid, Chats)
            /\ Cardinality(EventsOf(db, uid, "quiz")) <= Served(uid, Chats))
    /\ [][\A uid \in Players :
            (/\ last'.op = "quiz_answer"
             /\ last'.uid = uid
             /\ \/ user_data[uid].current_quiz = 0
                \/ user_data[uid].current_quiz # last'.arg)
            => /\ db'.user_quiz_history = db.user_quiz_history
               /\ db'.transactions = db.transactions]_vars

\* an answer was graded and recorded for another question than the one its
\* payload names
C12_AnsweredAnotherQuestion ==
    /\ last.op = "quiz_answer"
    /\ last.outcome \in {"correct", "wrong"}
    /\ db.user_quiz_history # <<>>
    /\ db.user_quiz_history[Len(db.user_quiz_history)].question_id # last.arg

\* one question message served, two attempts recorded for it
C12_AnsweredTwice ==
    \E uid \in Players :
        /\ Served(uid, Chats) = 1
        /\ Cardinality(AttemptsOf(db, uid)) = 2
        /\ Cardinality(EventsOf(db, uid, "quiz")) = 2

----------------------------------------------------------------------------
(* The quiz over the days: one chat, replies that arrive, a moving clock *)

NextQuizDays == Advance \/ QuizSteps({"private"}, {"ok"})

SpecQuizDays == Init /\ [][NextQuizDays]_vars

\* the questions an account attempted on the present day, by the host's
\* date and by the UTC date alike
AttemptedThisDay(d, uid) ==
    {d.user_quiz_history[i].question_id : i \in
        {j \in AttemptsOf(d, uid) :
            /\ utc_date(d.user_quiz_history[j].ts) = utc_date(now)
            /\ local_date(d.user_quiz_history[j].ts) = local_date(now)}}

\* the questions an account attempted on the present day by either date
AttemptedEitherDay(d, uid) ==
    {d.user_quiz_history[i].question_id : i \in
        {j \in AttemptsOf(d, uid) :
            \/ utc_date(d.user_quiz_history[j].ts) = utc_date(now)
            \/ local_date(d.user_quiz_history[j].ts) = local_date(now)}}

\* C13: quiz_start serves a question the account has attempted on the
\* present day only when every question has been attempted that day.
C13_NoRepeatWhileUnattempted ==
    [][\A uid \in Players :
        (/\ last'.op = "quiz_start"
         /\ last'.uid = uid
         /\ last'.outcome = "asked"
         /\ last'.replied
         /\ last'.arg \in AttemptedThisDay(db, uid))
        => QuestionIds \subseteq AttemptedEitherDay(db, uid)]_vars

\* a question served again at the very hour of its attempt
C13_ServedAgainSameHour ==
    /\ last.op = "quiz_start"
    /\ last.outcome = "asked"
    /\ last.replied
    /\ \E i \in AttemptsOf(db, last.uid) :
          /\ db.user_quiz_history[i].ts = now
          /\ db.user_quiz_history[i].question_id = last.arg

----------------------------------------------------------------------------
(* The adjustments: any account sends /addbal for any account, and an      *)
(* SQLite statement of the handler may raise                               *)

Adjustments == {500000, 0 - 5000}

NextAdjust ==
    \E caller \in Actors, uid \in Actors, amt \in Adjustments,
       f \in DbFaults \cup NoFaults :
        /\ MayFault(f)
        /\ Room(1, MaxFaultEvents)
        /\ admin_add_balance_cmd(caller, uid, amt, f)

SpecAdjust == Init /\ [][NextAdjust]_vars

\* the balance and the events of an account, as d holds them
Ledger(d, id) ==
    [balance |-> get_balance(d, id),
     events |-> SelectSeq(d.transactions, LAMBDA e : e.user_id = id)]

\* C14: a ledger append that fails leaves the balance and the events of
\* every account as they were, in the state the handlers see and in the
\* persisted state, and no later commit persists a balance that is not the
\* sum of the persisted events.
C14_AppendAllOrNothing ==
    /\ [][(last'.op = "addbal" /\ last'.outcome = "db_fault") =>
            \A id \in AccountIds :
                /\ Ledger(db', id) = Ledger(db, id)
                /\ Ledger(disk', id) = Ledger(disk, id)]_vars
    /\ [](\A id \in AccountIds :
            get_balance(disk, id) = SumAmounts(disk.transactions, id))

\* the balance update of a failed append, persisted by a later append
C14_PartialAppendPersisted ==
    /\ last.op = "addbal"
    /\ last.outcome = "adjusted"
    /\ faults > 0
    /\ \E id \in AccountIds :
          get_balance(disk, id) # SumAmounts(disk.transactions, id)

\* the accounts a deployment regards as operators; the others are ordinary
Operators == {1}

\* C15: a request to /addbal by an ordinary account changes no balance and
\* appends no event, so every admin_adjust event stems from an operator.
C15_OnlyOperatorsAdjust ==
    [][(last'.op = "addbal" /\ last'.uid \notin Operators) =>
          \A id \in AccountIds :
              /\ Ledger(db', id) = Ledger(db, id)
              /\ Ledger(disk', id) = Ledger(disk, id)]_vars

\* an ordinary account has credited itself
C15_OrdinaryAccountAdjusted ==
    /\ last.op = "addbal"
    /\ last.outcome = "adjusted"
    /\ last.uid \notin Operators
    /\ last.arg = last.uid
    /\ EventsOf(disk, last.uid, "admin_adjust") # {}
    /\ get_balance(disk, last.uid) > 0

----------------------------------------------------------------------------
(* The referrals: /start of any account with any referral code or none *)

NextReferral ==
    \E uid \in AccountIds, ref_id \in {0} \cup AccountIds, f \in NoFaults :
        /\ Room(1, MaxReferralEvents)
        /\ start_handler(uid, ref_id, f)

SpecReferral == Init /\ [][NextReferral]_vars

LinksOf(d, uid) ==
    {i \in 1 .. Len(d.referrals) : d.referrals[i].referred = uid}

----------------------------------------------------------------------------
(* The rate limiter: two accounts claim again and again within minutes *)

ShortTick ==
    /\ now + TickLen <= StartTime + MaxLimiterTicks * TickLen
    /\ now' = now + TickLen
    /\ last' = Did("clock", 0, "tick", 0, TRUE)
    /\ UNCHANGED <<db, disk, user_data, conv, quizconv, calls, tz, commits,
                   keyboards, admitted, faults>>

NextLimiter ==
    \/ ShortTick
    \/ \E base \in BaseDraws, f \in NoFaults : daily_bonus_cmd(1, base, f)
    \/ \E base \in BaseDraws, f \in NoFaults :
          /\ Len(calls[2]) < MaxCalls
          /\ daily_bonus_cmd(2, base, f)

SpecLimiter == InitUtc /\ [][NextLimiter]_vars

\* the invocations of an account that entered daily_bonus_cmd less than
\* Window seconds ago
InWindow(uid) == Len(SelectSeq(admitted[uid], LAMBDA x : now - x < Window))

\* C17: never more than six invocations of an account within 60 seconds
\* have entered daily_bonus_cmd; a call is rejected exactly when six calls
\* of the same account entered within the last 60 seconds, whatever the
\* other accounts did, and a rejected call changes nothing: not the tables,
\* not the limiter's record, not the conversations.
C17_SixPerMinutePerAccount ==
    /\ [](\A uid \in Actors : InWindow(uid) <= MaxPerMinute)
    /\ [][\A uid \in Actors :
            (last'.op = "bonus" /\ last'.uid = uid)
            => /\ last'.outcome = "too_fast" <=> InWindow(uid) >= MaxPerMinute
               /\ last'.outcome = "too_fast" =>
                      UNCHANGED <<db, disk, user_data, conv, quizconv, calls,
                                  now, tz, commits, keyboards, admitted,
                                  faults>>]_vars

\* account 2 is served while account 1, whose six calls of the last minute
\* were made at two different times, is held off
C17_OtherAccountServed ==
    /\ last.op = "bonus"
    /\ last.uid = 2
    /\ last.outcome # "too_fast"
    /\ InWindow(1) = MaxPerMinute
    /\ Len(calls[1]) = MaxPerMinute
    /\ calls[1][1] # calls[1][MaxPerMinute]

----------------------------------------------------------------------------
(* The daily bonus where an SQLite statement of the handler may raise *)

NextBonusFault ==
    \/ Advance
    \/ \E uid \in Claimants, base \in BaseDraws, f \in DbFaults \cup NoFaults :
          /\ MayFault(f)
          /\ Room(1, MaxBonusEvents)
          /\ daily_bonus_cmd(uid, base, f)

SpecBonusFault == Init /\ [][NextBonusFault]_vars

\* the days, by the host's date, of the bonus events d holds of an account
BonusDaysIn(d, id) ==
    {local_date(d.transactions[i].ts) : i \in EventsOf(d, id, "bonus")}

\* the last-claim date and the streak d holds of an account
Claimed(d, id) ==
    IF HasUser(d, id)
    THEN <<d.users[id].last_bonus, d.users[id].streak>>
    ELSE <<0, 0>>

\* C18: a bonus claim that fails leaves the last-claim date and the streak as
\* they were, and an account whose last-claim date is day D has a bonus event
\* of day D, in the state the handlers see and in the persisted state.
C18_ClaimDateHasBonusEvent ==
    /\ [][(last'.op = "bonus" /\ last'.outcome = "db_fault") =>
            /\ Claimed(db', last'.uid) = Claimed(db, last'.uid)
            /\ Claimed(disk', last'.uid) = Claimed(disk, last'.uid)]_vars
    /\ [](\A id \in Claimants :
            /\ Claimed(db, id)[1] # 0 => Claimed(db, id)[1] \in BonusDaysIn(db, id)
            /\ Claimed(disk, id)[1] # 0
                  => Claimed(disk, id)[1] \in BonusDaysIn(disk, id))

\* a claim refused as already made on a day for which no bonus was paid
C18_RefusedWithoutBonus ==
    /\ last.op = "bonus"
    /\ last.outcome = "already"
    /\ Claimed(disk, last.uid)[1] = today
    /\ today \notin BonusDaysIn(disk, last.uid)
    /\ today \notin BonusDaysIn(db, last.uid)

----------------------------------------------------------------------------
(* The spin wheel where an SQLite statement of the handler may raise *)

NextSpinFault ==
    \/ Advance
    \/ \E uid \in Spinners, r \in {10, 11}, f \in DbFaults \cup NoFaults :
          /\ MayFault(f)
          /\ Room(1, MaxSpinEvents)
          /\ spin_start(uid, r, f)

SpecSpinFault == Init /\ [][NextSpinFault]_vars

\* the spin records d holds of an account
SpinsOf(d, uid) == {i \in 1 .. Len(d.spins) : d.spins[i].user_id = uid}

\* C19: every account has as many spin events as spin records, in the state
\* the handlers see and in the persisted state.
C19_SpinEventsMatchRecords ==
    \A id \in AccountIds :
        /\ Cardinality(EventsOf(db, id, "spin")) = Cardinality(SpinsOf(db, id))
        /\ Cardinality(EventsOf(disk, id, "spin"))
              = Cardinality(SpinsOf(disk, id))

\* a spin paid twice at the same hour, with one spin record
C19_SpinPaidTwice ==
    \E id \in Spinners :
        /\ last = Did("spin", id, "spun", last.arg, TRUE)
        /\ Cardinality(SpinsOf(disk, id)) = 1
        /\ \E i, j \in EventsOf(disk, id, "spin") :
              /\ i < j
              /\ disk.transactions[i].ts = disk.transactions[j].ts
              /\ disk.transactions[i].amount > 0
              /\ disk.transactions[j].amount > 0

----------------------------------------------------------------------------
(* The missions table as an operator may have filled it: one mission with  *)
(* any thresholds for referrals, spins and quizzes                         *)

ConditionMaps ==
    [referrals : {0, 1}, spins : {0, 1}, quizzes : {0, 1}]

MissionTables ==
    {<<[id |-> 1, reward |-> 4000, referrals |-> c.referrals,
        spins |-> c.spins, quizzes |-> c.quizzes]>> : c \in ConditionMaps}

InitCondition == \E tbl \in MissionTables : InitWith(tbl)

NextCondition == MissionSteps(NoFaults)

SpecCondition == InitCondition /\ [][NextCondition]_vars

\* every threshold a condition names is met by the counts of the account
AllMet(d, uid, m) ==
    /\ ReferralCount(d, uid) >= m.referrals
    /\ TotalSpins(d, uid) >= m.spins
    /\ Cardinality(AttemptsOf(d, uid)) >= m.quizzes

----------------------------------------------------------------------------
(* Claims about the course of a transfer conversation *)

\* the conversations of an account that are in state st
ConvsIn(uid, st) == {k \in ConvKeys : k[2] = uid /\ conv[k] = st}

\* the moves of a conversation the protocol allows
Forward ==
    {<<"END", "SEND_RECIPIENT">>, <<"SEND_RECIPIENT", "SEND_AMOUNT">>,
     <<"SEND_AMOUNT", "SEND_CONFIRM">>, <<"SEND_AMOUNT", "END">>,
     <<"SEND_CONFIRM", "END">>}

\* C21: a transfer conversation moves only from awaiting the recipient to
\* awaiting the amount, to awaiting the confirmation, to its end; input that
\* is not a number, or an amount that is not positive, leaves it where it
\* is; a valid positive amount moves it on or ends it; confirm and cancel
\* end it.
C21_ConversationMovesForward ==
    [][/\ \A k \in ConvKeys :
            conv'[k] # conv[k] => <<conv[k], conv'[k]>> \in Forward
       /\ (last'.op = "send_recipient" /\ last'.outcome = "reprompt")
            => conv' = conv
       /\ (last'.op = "send_amount"
             /\ last'.outcome \in {"invalid", "not_positive"})
            => conv' = conv
       /\ (last'.op = "send_amount" /\ last'.outcome = "asked_confirm")
            => \E k \in ConvsIn(last'.uid, "SEND_AMOUNT") :
                  conv'[k] = "SEND_CONFIRM"
       /\ (last'.op = "send_amount"
             /\ last'.outcome \in {"no_funds", "over_cap"})
            => \E k \in ConvsIn(last'.uid, "SEND_AMOUNT") : conv'[k] = "END"
       /\ last'.op = "send_confirm"
            => \E k \in ConvsIn(last'.uid, "SEND_CONFIRM") : conv'[k] = "END"
      ]_vars

\* a cancel was handled and the only conversation of the account still
\* awaits the confirmation
C21_CancelledAndStillAwaiting ==
    /\ last.op = "send_confirm"
    /\ last.outcome = "cancelled"
    /\ conv[<<"private", last.uid>>] = "SEND_CONFIRM"
    /\ conv[<<"group", last.uid>>] = "END"

\* the events, the balances and the daily-sent counters d holds
Books(d) ==
    [events |-> d.transactions,
     balances |-> [id \in AccountIds |-> get_balance(d, id)],
     sent |-> [id \in AccountIds |->
                  IF HasUser(d, id) THEN d.users[id].daily_sent ELSE 0]]

\* C22: every step of the transfer protocol but a confirm that passes the
\* final balance check (start, recipient, amount, abort, cancel) leaves the
\* events, the balances and the daily-sent counters as they were, in the
\* state the handlers see and in the persisted state.
C22_OnlyConfirmTouchesBooks ==
    [][(\/ last'.op \in {"send_start", "send_recipient", "send_amount"}
        \/ last'.op = "send_confirm" /\ last'.outcome # "committed")
       => /\ Books(db') = Books(db)
          /\ Books(disk') = Books(disk)]_vars

\* a conversation with a recipient and an amount was cancelled, the sender
\* has funds and the books hold an earlier transfer
C22_CancelledWithFunds ==
    /\ last.op = "send_confirm"
    /\ last.outcome = "cancelled"
    /\ user_data[last.uid].send_amount > 0
    /\ get_balance(db, last.uid) >= user_data[last.uid].send_amount
    /\ EventsOf(db, last.uid, "transfer_out") # {}

\* C23: an account none of whose transfer conversations is under way holds
\* no recipient and no amount in its user_data: a conversation that ended
\* has discarded them.
C23_EndedConversationHoldsNothing ==
    \A uid \in Senders :
        (\A chat \in Chats : conv[<<chat, uid>>] = "END")
        => /\ user_data[uid].send_recipient = 0
           /\ user_data[uid].send_amount = 0

\* after a committed transfer and a new /send, the new conversation awaits
\* its recipient and user_data holds the recipient and the amount of the old
C23_NewConversationSeesOldData ==
    /\ last.op = "send_start"
    /\ conv[<<"private", 1>>] = "SEND_RECIPIENT"
    /\ conv[<<"group", 1>>] = "END"
    /\ commits[<<"group", 1>>] = 0
    /\ EventsOf(db, 1, "transfer_out") # {}
    /\ user_data[1].send_recipient # 0
    /\ user_data[1].send_amount # 0

----------------------------------------------------------------------------
(* Claims about the whole bot *)

\* C24: a reply that fails neither prevents nor repeats an effect: an answer
\* callback that finds its question stored records the attempt, no account
\* has more attempts or quiz rewards than questions served to it, and no
\* pass of a transfer conversation commits more than one transfer.
C24_SendsDoNotChangeEffects ==
    /\ [][(last'.op = "quiz_answer"
            /\ user_data[last'.uid].current_quiz # 0)
           => Len(db'.user_quiz_history) = Len(db.user_quiz_history) + 1]_vars
    /\ [](\A uid \in Actors :
            /\ Cardinality(AttemptsOf(db, uid)) <= Served(uid, Chats)
            /\ Cardinality(EventsOf(db, uid, "quiz")) <= Served(uid, Chats))
    /\ [](\A k \in ConvKeys : commits[k] <= 1)

\* the answer to a stored question was not recorded, as its reply failed
C24_AnswerLostWithReply ==
    /\ last.op = "quiz_answer"
    /\ last.outcome = "send_failed"
    /\ ~last.replied
    /\ user_data[last.uid].current_quiz # 0
    /\ AttemptsOf(db, last.uid) = {}

----------------------------------------------------------------------------
(* Amounts with more than two decimals: /addbal 1 1.005, and a transfer of *)
(* 0.239 typed at the amount step; every reply is delivered                *)

DecimalAdjustments == {1005, 1000}
DecimalAmounts == {Number(FALSE, 0, <<2, 3, 9>>), Number(FALSE, 0, <<5>>)}

NextRounding ==
    \/ \E amt \in DecimalAdjustments, f \in NoFaults :
          /\ Room(1, MaxEvents)
          /\ admin_add_balance_cmd(2, 1, amt, f)
    \/ \E f \in NoFaults : send_start("private", 1, f, TRUE)
    \/ \E text \in TransferRecipients : send_recipient("private", 1, text, TRUE)
    \/ \E text \in DecimalAmounts : send_amount("private", 1, text, TRUE)
    \/ \E data \in Buttons, f \in NoFaults :
          /\ Room(2, MaxEvents)
          /\ send_confirm("private", 1, data, f, "ok")

SpecRounding == Init /\ [][NextRounding]_vars

\* C25: every amount of a ledger event and every balance is a whole number
\* of hundredths (of tens, in thousandths).
C25_AmountsAreHundredths ==
    /\ \A i \in 1 .. Len(db.transactions) : db.transactions[i].amount % 10 = 0
    /\ \A id \in AccountIds : get_balance(db, id) % 10 = 0

\* the adjustment of 1.005 stands in the ledger and in the balance as typed
C25_AdjustmentNotRounded ==
    /\ last.op = "addbal"
    /\ \E i \in EventsOf(disk, 1, "admin_adjust") :
          disk.transactions[i].amount = 1005
    /\ get_balance(disk, 1) % 10 = 5

\* the transfer typed as 0.239 was made as 0.23, where half up gives 0.24
C25_TransferCutNotRounded ==
    /\ last.op = "send_confirm"
    /\ last.outcome = "committed"
    /\ last.arg = 230

\* C26: a step other than /addbal never takes the balances, in the state
\* the handlers see or in the persisted state, from all non-negative to one
\* below zero.
C26_BalancesStayNonNegative ==
    [][(/\ last'.op # "addbal"
        /\ \A id \in AccountIds :
              get_balance(db, id) >= 0 /\ get_balance(disk, id) >= 0)
       => \A id \in AccountIds :
              get_balance(db', id) >= 0 /\ get_balance(disk', id) >= 0]_vars

\* a confirm refused by the re-check: the balance fell below the amount
\* after the amount step
C26_RefusedByRecheck ==
    /\ last.op = "send_confirm"
    /\ last.outcome = "no_funds"
    /\ get_balance(db, last.uid) >= 0
    /\ get_balance(db, last.uid) < last.arg

----------------------------------------------------------------------------
(* Orders *)

order_start(uid, f, sendOk) ==
    /\ LET s1 == ensure_user(Begin(f), uid, TRUE, 0)
       IN  /\ db' = s1.db
           /\ disk' = s1.disk
           /\ Count(s1)
           /\ user_data' = IF s1.ok /\ sendOk
                           THEN [user_data EXCEPT ![uid].awaiting_order = TRUE]
                           ELSE user_data
           /\ last' = Did("order_start", uid, Result(s1, "asked_order"), 0,
                          sendOk)
    /\ UNCHANGED <<conv, quizconv, calls, now, tz, commits, keyboards,
                   admitted>>

InsertOrder(d, uid, text) ==
    [d EXCEPT !.orders = Append(@, [user_id |-> uid, text |-> text])]

\* text: the number that stands for the text of the message
order_message_handler(uid, text, f, sendOk) ==
    IF user_data[uid].awaiting_order
    THEN LET s1 == db_commit(Exec(Begin(f), InsertOrder(db, uid, text)))
         IN  /\ db' = s1.db
             /\ disk' = s1.disk
             /\ Count(s1)
             /\ user_data' = IF s1.ok
                             THEN [user_data EXCEPT
                                      ![uid].awaiting_order = FALSE]
                             ELSE user_data
             /\ last' = Did("order_message_handler", uid,
                            Result(s1, "order_stored"), text, sendOk)
             /\ UNCHANGED <<conv, quizconv, calls, now, tz, commits,
                            keyboards, admitted>>
    ELSE /\ last' = Did("order_message_handler", uid, "unknown_message",
                        text, sendOk)
         /\ UNCHANGED <<db, disk, user_data, conv, quizconv, calls, now, tz,
                        commits, keyboards, admitted, faults>>

----------------------------------------------------------------------------
(* Routing: the handlers of group 0 in the order of register_handlers; the *)
(* first handler that matches an update handles it, and no other           *)

\* an update: a command, a plain text or a callback query; code stands for
\* its text, digits and number are the text as send_recipient and
\* send_amount read it
Update(kind, code, digits, number) ==
    [kind |-> kind, code |-> code, digits |-> digits, number |-> number]

NotDigits == [isdigit |-> FALSE, n |-> 0]

SendCommand == Update("command", 1, NotDigits, Junk)
SpinCommand == Update("command", 2, NotDigits, Junk)
AddbalCommand == Update("command", 3, NotDigits, Junk)
SendButton == Update("text", 4, NotDigits, Junk)
SpinButton == Update("text", 5, NotDigits, Junk)
OrderButton == Update("text", 6, NotDigits, Junk)
\* the text "3": a recipient id, or an amount
DigitsText ==
    Update("text", 7, [isdigit |-> TRUE, n |-> 3], Number(FALSE, 3, <<>>))
ConfirmCallback == Update("callback", 8, NotDigits, Junk)

Updates ==
    {SendCommand, SpinCommand, AddbalCommand, SendButton, SpinButton,
     OrderButton, DigitsText, ConfirmCallback}

\* the handlers that can match one of Updates, in the order they are added
Registered ==
    <<"addbal", "order_button", "any_text", "spin_button", "send_conv",
      "spin_command">>

\* check_update of a registered handler
Matches(h, upd, chat, uid) ==
    LET st == conv[<<chat, uid>>]
    IN  CASE h = "addbal" -> upd = AddbalCommand
          [] h = "order_button" -> upd = OrderButton
          [] h = "any_text" -> upd.kind = "text"
          [] h = "spin_button" -> upd = SpinButton
          [] h = "send_conv" ->
                \/ st = "END" /\ upd \in {SendButton, SendCommand}
                \/ st \in {"SEND_RECIPIENT", "SEND_AMOUNT"}
                      /\ upd.kind = "text"
                \/ st = "SEND_CONFIRM" /\ upd = ConfirmCallback
          [] h = "spin_command" -> upd = SpinCommand

\* the first registered handler that matches, "" if none does
Route(upd, chat, uid) ==
    LET hits == {i \in 1 .. Len(Registered) :
                    Matches(Registered[i], upd, chat, uid)}
    IN  IF hits = {} THEN ""
        ELSE Registered[CHOOSE i \in hits : \A j \in hits : i <= j]

\* process_update: the update goes to the callback of the handler routed to
process_update(chat, uid, upd, f, sendOk) ==
    LET h == Route(upd, chat, uid)
        st == conv[<<chat, uid>>]
    IN  IF h = "addbal" THEN admin_add_balance_cmd(uid, uid, 1000000, f)
        ELSE IF h = "order_button" THEN order_start(uid, f, sendOk)
        ELSE IF h = "any_text"
             THEN order_message_handler(uid, upd.code, f, sendOk)
        ELSE IF h \in {"spin_button", "spin_command"}
             THEN spin_start(uid, 11, f)
        ELSE IF h = "send_conv" /\ st = "END"
             THEN send_start(chat, uid, f, sendOk)
        ELSE IF h = "send_conv" /\ st = "SEND_RECIPIENT"
             THEN send_recipient(chat, uid, upd.digits, sendOk)
        ELSE IF h = "send_conv" /\ st = "SEND_AMOUNT"
             THEN send_amount(chat, uid, upd.number, sendOk)
        ELSE IF h = "send_conv"
             THEN send_confirm(chat, uid, "confirm_send", f,
                               IF sendOk THEN "ok" ELSE "answer")
        ELSE /\ last' = Did("unhandled", uid, "unhandled", upd.code, TRUE)
             /\ UNCHANGED <<db, disk, user_data, conv, quizconv, calls, now,
                            tz, commits, keyboards, admitted, faults>>

NextRouting ==
    \E upd \in Updates, f \in NoFaults, sendOk \in BOOLEAN :
        /\ Room(1, MaxEvents)
        /\ user_data[1].awaiting_order /\ upd.kind = "text"
              => Len(db.orders) < MaxOrders
        /\ process_update("private", 1, upd, f, sendOk)

SpecRouting == Init /\ [][NextRouting]_vars

\* C27: the texts of a transfer conversation reach the transfer protocol
\* and the spin button reaches spin_start: the generic text handler handles
\* no text of an account whose transfer conversation awaits a recipient or
\* an amount, and never the text of the spin button.
C27_TextsReachTheirHandlers ==
    [][last'.op = "order_message_handler" =>
          /\ conv[<<"private", last'.uid>>] = "END"
          /\ last'.arg # SpinButton.code]_vars

\* the recipient typed after /send was answered as an unknown message, and
\* the conversation still awaits its recipient
C27_RecipientTextSwallowed ==
    /\ last.op = "order_message_handler"
    /\ last.arg = DigitsText.code
    /\ conv[<<"private", last.uid>>] = "SEND_RECIPIENT"
    /\ get_balance(db, last.uid) >= DigitsText.number.int * 1000

\* the transfer protocol never gets past its first state, and no transfer
\* is ever made
C27_NoTransferIsEverMade ==
    /\ \A k \in ConvKeys : conv[k] \in {"END", "SEND_RECIPIENT"}
    /\ \A id \in AccountIds : EventsOf(db, id, "transfer_out") = {}

====
